---- MODULE Spec2Model ----
(***************************************************************************)
(* Model of the Netlify-style _redirects parser of go-redirects            *)
(* (src/redirects.go).  A string is a sequence of one-character strings,   *)
(* so that trimming, tokenising, splitting and integer conversion are      *)
(* computed character by character as the Go library functions do.         *)
(***************************************************************************)
EXTENDS Integers, Sequences, FiniteSets, TLC

VARIABLES input, readErr, rest, rules, err, pc, call

vars == <<input, readErr, rest, rules, err, pc, call>>

----------------------------------------------------------------------------
(* Go values *)

\* A nil slice, nil map or nil error; a non-nil container v is <<v>>.
Nil == <<>>

NonNil(v) == <<v>>

\* The status a Rule is created with.
DefaultStatus == 301

----------------------------------------------------------------------------
(* package strings / strconv *)

\* Characters unicode.IsSpace accepts: tab, newline, vertical tab, form feed,
\* carriage return, space, U+0085 (NEL), U+00A0 (NBSP) and U+1680.  (The others,
\* U+2000 and above, cannot be written in a string here and occur in no input.)
Whitespace == {" ", "\t", "\n", "\r", "\f", "", "", " ", " "}

DigitChars == {"0", "1", "2", "3", "4", "5", "6", "7", "8", "9"}

DigitVal(c) ==
    CASE c = "0" -> 0 [] c = "1" -> 1 [] c = "2" -> 2 [] c = "3" -> 3
      [] c = "4" -> 4 [] c = "5" -> 5 [] c = "6" -> 6 [] c = "7" -> 7
      [] c = "8" -> 8 [] c = "9" -> 9

RECURSIVE TrimLeft(_)
TrimLeft(s) ==
    IF s = <<>> \/ Head(s) \notin Whitespace THEN s ELSE TrimLeft(Tail(s))

RECURSIVE TrimRight(_)
TrimRight(s) ==
    IF s = <<>> \/ s[Len(s)] \notin Whitespace
    THEN s
    ELSE TrimRight(SubSeq(s, 1, Len(s) - 1))

\* strings.TrimSpace
TrimSpace(s) == TrimRight(TrimLeft(s))

RECURSIVE FieldsFrom(_, _, _)
FieldsFrom(s, cur, acc) ==
    IF s = <<>>
    THEN IF cur = <<>> THEN acc ELSE Append(acc, cur)
    ELSE IF Head(s) \in Whitespace
         THEN FieldsFrom(Tail(s), <<>>, IF cur = <<>> THEN acc ELSE Append(acc, cur))
         ELSE FieldsFrom(Tail(s), Append(cur, Head(s)), acc)

\* strings.Fields: the maximal runs of non-space characters, in order.
Fields(s) == FieldsFrom(s, <<>>, <<>>)

RECURSIVE SplitFrom(_, _, _, _)
SplitFrom(s, sep, cur, acc) ==
    IF s = <<>>
    THEN Append(acc, cur)
    ELSE IF Head(s) = sep
         THEN SplitFrom(Tail(s), sep, <<>>, Append(acc, cur))
         ELSE SplitFrom(Tail(s), sep, Append(cur, Head(s)), acc)

\* strings.Split(s, sep) for a one-character separator: every separator cuts.
Split(s, sep) == SplitFrom(s, sep, <<>>, <<>>)

\* strings.ContainsAny(s, chars)
ContainsAny(s, chars) == \E i \in 1..Len(s) : s[i] \in chars

\* strings.HasPrefix
HasPrefix(s, p) == Len(s) >= Len(p) /\ SubSeq(s, 1, Len(p)) = p

\* strings.HasSuffix
HasSuffix(s, p) ==
    Len(s) >= Len(p) /\ SubSeq(s, Len(s) - Len(p) + 1, Len(s)) = p

\* strings.Replace(s, old, "", -1) for a one-character old: every occurrence goes.
Replace(s, old) == SelectSeq(s, LAMBDA c : c # old)

RECURSIVE DecimalValue(_, _)
DecimalValue(s, acc) ==
    IF s = <<>> THEN acc ELSE DecimalValue(Tail(s), 10 * acc + DigitVal(Head(s)))

\* strconv.Atoi: an optional sign and one or more decimal digits; on a syntax
\* error the value is 0.  (Tokens are short; the range error is out of reach.)
Atoi(s) ==
    LET signed == s # <<>> /\ Head(s) \in {"+", "-"}
        body   == IF signed THEN Tail(s) ELSE s
        ok     == body # <<>> /\ \A i \in 1..Len(body) : body[i] \in DigitChars
        mag    == IF ok THEN DecimalValue(body, 0) ELSE 0
    IN  [n   |-> IF signed /\ Head(s) = "-" THEN 0 - mag ELSE mag,
         err |-> ~ok]

----------------------------------------------------------------------------
(* errors *)

\* fmt.Errorf("missing destination path: %q", line)
ErrMissingDestination(line) == <<"missing destination path", line>>

\* fmt.Errorf("got: %s, was expecting format %s", token, format)
ErrFormat(token) == <<"got, was expecting format", token>>

\* The error of the underlying reader, as s.Err() reports it.
ErrRead == <<"read error">>

----------------------------------------------------------------------------
(* parseParams, parseStatus, splitOptions, parseOptions *)

MapSet(m, k, v) == [x \in (DOMAIN m) \cup {k} |-> IF x = k THEN v ELSE m[x]]

RECURSIVE parseParamsFrom(_, _)
parseParamsFrom(pairs, m) ==
    IF pairs = <<>>
    THEN m
    ELSE LET parts == Split(Head(pairs), "=")
             val   == IF Len(parts) > 1
                      THEN <<"string", parts[2]>>
                      ELSE <<"bool", TRUE>>
         IN  parseParamsFrom(Tail(pairs), MapSet(m, parts[1], val))

\* parseParams: a map from the text before the first `=` to the second part.
parseParams(pairs) == parseParamsFrom(pairs, <<>>)

\* parseStatus that strips the "!" but never reports force.
parseStatusNoForce(s) ==
    LET a == Atoi(IF HasSuffix(s, <<"!">>) THEN Replace(s, "!") ELSE s)
    IN  [code |-> a.n, force |-> FALSE, err |-> a.err]

\* parseStatus: the code and force when a "!" suffix is present.
parseStatus(s) ==
    LET force == HasSuffix(s, <<"!">>)
        a     == Atoi(IF force THEN Replace(s, "!") ELSE s)
    IN  [code |-> a.n, force |-> force, err |-> a.err]

\* splitOptions that keeps the value as one string.
splitOptionsNoComma(options) ==
    LET parts == Split(options, "=")
    IN  IF Len(parts) > 1
        THEN <<parts[1], <<parts[2]>>>>
        ELSE <<parts[1], <<>>>>

\* splitOptions: the key and the comma-separated values.
splitOptions(options) ==
    LET parts == Split(options, "=")
    IN  IF Len(parts) > 1
        THEN <<parts[1], Split(parts[2], ",")>>
        ELSE <<parts[1], <<>>>>

KeyCountry == <<"C", "o", "u", "n", "t", "r", "y">>

KeyLanguage == <<"L", "a", "n", "g", "u", "a", "g", "e">>

\* One iteration of parseOptions' loop over acc = [Country, Language, err].
parseOptionsStep(acc, token) ==
    LET e1 == IF ~ContainsAny(token, {"="}) THEN ErrFormat(token) ELSE acc.err
        kv == splitOptions(token)
    IN  IF kv[1] = KeyCountry
        THEN [Country |-> NonNil(kv[2]), Language |-> acc.Language, err |-> e1]
        ELSE IF kv[1] = KeyLanguage
             THEN [Country |-> acc.Country, Language |-> NonNil(kv[2]), err |-> e1]
             ELSE [Country |-> acc.Country, Language |-> acc.Language,
                   err |-> ErrFormat(token)]

RECURSIVE parseOptionsFrom(_, _)
parseOptionsFrom(options, acc) ==
    IF options = <<>>
    THEN acc
    ELSE parseOptionsFrom(Tail(options), parseOptionsStep(acc, Head(options)))

\* parseOptions: the optional Country and Language fields.
parseOptions(options) ==
    parseOptionsFrom(options, [Country |-> Nil, Language |-> Nil, err |-> Nil])

----------------------------------------------------------------------------
(* Parse: the body of the scanning loop, for one line of the input *)

Rule(from, to, status, force, params, country, language) ==
    [From |-> from, To |-> to, Status |-> status, Force |-> force,
     Params |-> params, Country |-> country, Language |-> language]

NoRule == Rule(<<>>, <<>>, 0, FALSE, Nil, Nil, Nil)

Skipped == [kind |-> "skip", rule |-> NoRule, err |-> Nil]

Failed(e) == [kind |-> "error", rule |-> NoRule, err |-> e]

\* An index out of range: the Go runtime panics and Parse does not return.
Panicked == [kind |-> "panic", rule |-> NoRule, err |-> Nil]

Parsed(r) == [kind |-> "rule", rule |-> r, err |-> Nil]

\* The parameter loop `for i = 1; ContainsAny(fields[i], "="); i++`, started at
\* i (1-based here): the index of the first token without `=`, or 0 when the
\* loop runs past the last token and fields[i] is out of range.
RECURSIVE grabParameters(_, _)
grabParameters(fields, i) ==
    IF i > Len(fields)
    THEN 0
    ELSE IF ContainsAny(fields[i], {"="})
         THEN grabParameters(fields, i + 1)
         ELSE i

\* The `to` block on token t: an integer is passed over and To stays empty.
toField(t) ==
    IF Atoi(t).err
    THEN IF HasSuffix(t, <<"!">>)
         THEN [to |-> <<>>, err |-> ErrFormat(t)]
         ELSE IF ContainsAny(t, {"="})
              THEN [to |-> <<>>, err |-> ErrFormat(t)]
              ELSE [to |-> t, err |-> Nil]
    ELSE [to |-> <<>>, err |-> Nil]

\* The status block on options[0]: Atoi, then parseStatus, each assigning
\* rule.Status (and rule.Force) whether or not it succeeds.
statusField(t) ==
    LET a  == Atoi(t)
        st == parseStatus(t)
    IN  IF ~a.err
        THEN [status |-> a.n, force |-> FALSE, err |-> Nil]
        ELSE [status |-> st.code, force |-> st.force,
              err |-> IF st.err /\ ~ContainsAny(t, {"="})
                      THEN ErrFormat(t)
                      ELSE Nil]

\* afterTo for a rule created without `Status: 301`: the zero value stays when
\* nothing follows the `to` token.
afterToNoDefault(from, params, to, options) ==
    IF Len(options) > 0
    THEN LET sf == statusField(options[1])
             po == parseOptions(Tail(options))
         IN  IF sf.err # Nil
             THEN Failed(sf.err)
             ELSE IF po.err # Nil
                  THEN Failed(po.err)
                  ELSE Parsed(Rule(from, to, sf.status, sf.force, params,
                                   po.Country, po.Language))
    ELSE Parsed(Rule(from, to, 0, FALSE, params, Nil, Nil))

\* What follows the `to` token: options[0] goes through the status block and is
\* then dropped (options = options[1:]); the rest goes to parseOptions.
afterTo(from, params, to, options) ==
    IF Len(options) > 0
    THEN LET sf == statusField(options[1])
             po == parseOptions(Tail(options))
         IN  IF sf.err # Nil
             THEN Failed(sf.err)
             ELSE IF po.err # Nil
                  THEN Failed(po.err)
                  ELSE Parsed(Rule(from, to, sf.status, sf.force, params,
                                   po.Country, po.Language))
    ELSE Parsed(Rule(from, to, DefaultStatus, FALSE, params, Nil, Nil))

\* The `continue` test without the comment case.
emptyOnly(line) == line = <<>>

\* The two `continue` tests on the trimmed line: empty, or a comment.
emptyOrComment(line) == line = <<>> \/ HasPrefix(line, <<"#">>)

\* The `missing dst` test that lets a single token through.
missingDstEmptyOnly(fields) == Len(fields) < 1

\* The `missing dst` test on the tokens of the line.
missingDst(fields) == Len(fields) <= 1

\* rule.Params assigned without the `len(parameters) != 0` test.
paramsFieldAlways(parameters) == NonNil(parseParams(parameters))

\* rule.Params: set only if there were any parameters.
paramsField(parameters) ==
    IF Len(parameters) # 0 THEN NonNil(parseParams(parameters)) ELSE Nil

\* The loop body of Parse on the text s.Text() of one line.
ParseLine(text) ==
    LET line   == TrimSpace(text)
        fields == Fields(line)
    IN  IF emptyOrComment(line)
        THEN Skipped
        ELSE IF missingDst(fields)
        THEN Failed(ErrMissingDestination(line))
        ELSE LET i == grabParameters(fields, 2)
             IN  IF i = 0
                 THEN Panicked
                 ELSE LET parameters == SubSeq(fields, 2, i - 1)
                          params == paramsField(parameters)
                          tf == toField(fields[i])
                      IN  IF tf.err # Nil
                          THEN Failed(tf.err)
                          ELSE afterTo(fields[1], params, tf.to,
                                       SubSeq(fields, i + 1, Len(fields)))

----------------------------------------------------------------------------
(* bufio.Scanner with the default ScanLines split function *)

RECURSIVE IndexOf(_, _, _)
IndexOf(s, c, i) ==
    IF i > Len(s) THEN 0 ELSE IF s[i] = c THEN i ELSE IndexOf(s, c, i + 1)

dropCR(s) ==
    IF s # <<>> /\ s[Len(s)] = "\r" THEN SubSeq(s, 1, Len(s) - 1) ELSE s

\* The next line of the unread text and what is left after it: up to the first
\* newline, or the unterminated rest at the end of the input.
ScanLines(data) ==
    LET k == IndexOf(data, "\n", 1)
    IN  IF k > 0
        THEN [line |-> dropCR(SubSeq(data, 1, k - 1)),
              rest |-> SubSeq(data, k + 1, Len(data))]
        ELSE [line |-> dropCR(data), rest |-> <<>>]

----------------------------------------------------------------------------
(* Params.Has, Params.Get, Rule.IsRewrite *)

\* Go's `v, ok := m[key]`: a nil map has no key; a missing key gives nil.
MapLookup(m, key) ==
    IF m # Nil /\ key \in DOMAIN m[1]
    THEN [v |-> m[1][key], ok |-> TRUE]
    ELSE [v |-> Nil, ok |-> FALSE]

\* Has that tests the map and not the key.
HasAnyKey(p, key) == p # Nil /\ p[1] # Nil

\* (*Params).Has on the pointer p (Nil, or <<m>> for a pointer to the map m).
Has(p, key) == IF p = Nil THEN FALSE ELSE MapLookup(p[1], key).ok

\* (*Params).Get
Get(p, key) == IF p = Nil THEN Nil ELSE MapLookup(p[1], key).v

\* IsRewrite that takes every 2xx status for a rewrite.
IsRewriteAny2xx(r) == r.Status >= 200 /\ r.Status < 300

\* (*Rule).IsRewrite
IsRewrite(r) == r.Status = 200

\* No query method has been called.
NoCall == [op |-> "none", recv |-> Nil, key |-> <<>>, result |-> FALSE]

----------------------------------------------------------------------------
(* The inputs Parse is run on *)

\* Most tokens on a line drawn from the vocabulary.
MaxTokens == 4

\* Most lines of an input drawn from SampleLines.
MaxLines == 3

\* Tokens: two paths, a status, a forced status, two parameters, the two
\* options, and a word ending in `!`.
Vocabulary ==
    { <<"/", "a">>,
      <<"/", "b">>,
      <<"3", "0", "2">>,
      <<"2", "0", "0", "!">>,
      <<"k", "=", "v">>,
      <<"j", "=", "1">>,
      <<"C", "o", "u", "n", "t", "r", "y", "=", "a", "u", ",", "n", "z">>,
      <<"L", "a", "n", "g", "u", "a", "g", "e", "=", "h", "e">>,
      <<"x", "!">> }

RECURSIVE Join(_)
Join(tokens) ==
    IF tokens = <<>>
    THEN <<>>
    ELSE IF Len(tokens) = 1
         THEN Head(tokens)
         ELSE Head(tokens) \o <<" ">> \o Join(Tail(tokens))

SeqsUpTo(S, n) == UNION { [1..k -> S] : k \in 0..n }

\* Single-line inputs: every sequence of at most MaxTokens vocabulary tokens,
\* separated by one space, with no line terminator.
TokenInputs == { Join(ts) : ts \in SeqsUpTo(Vocabulary, MaxTokens) }

\* Lines of the multi-line inputs: blank, whitespace-only, comments, rules in
\* several layouts, a single token, a bad destination, parameters only.
SampleLines ==
    { <<>>,
      <<" ", "\t", " ">>,
      <<"#", " ", "c">>,
      <<"\t", "#", "c">>,
      <<"/", "a", " ", "/", "b">>,
      <<" ", "/", "b", " ", " ", "/", "a", "\t", "3", "0", "2", " ">>,
      <<"/", "a", " ", "/", "b", " ", "2", "0", "0", "!", "\r">>,
      <<"/", "a">>,
      <<"/", "a", " ", "x", "!">>,
      <<"/", "a", " ", "k", "=", "v">> }

\* Further single-line inputs, longer than MaxTokens tokens or with tokens
\* outside the vocabulary: both options after a forced status with a
\* parameter, the options in the other order, a repeated option, an empty
\* option value, several `!` in the status position, tokens with two `=`,
\* an option ending in `!`, words that are not paths, a repeated Language, and
\* a repeated Country after a Language right after `to`, and lines whose
\* spaces are vertical tabs, U+00A0 and U+0085.
ScenarioInputs ==
    { <<"/", "a", " ", "k", "=", "v", " ", "/", "b", " ", "2", "0", "0", "!", " ", "C", "o", "u", "n", "t", "r", "y", "=", "a", "u", ",", "n", "z", " ", "L", "a", "n", "g", "u", "a", "g", "e", "=", "h", "e">>,
      <<"/", "a", " ", "/", "b", " ", "3", "0", "2", " ", "L", "a", "n", "g", "u", "a", "g", "e", "=", "h", "e", " ", "C", "o", "u", "n", "t", "r", "y", "=", "a", "u", ",", "n", "z">>,
      <<"/", "a", " ", "/", "b", " ", "3", "0", "2", " ", "C", "o", "u", "n", "t", "r", "y", "=", "a", "u", ",", "n", "z", " ", "L", "a", "n", "g", "u", "a", "g", "e", "=", "h", "e", " ", "C", "o", "u", "n", "t", "r", "y", "=", "n", "z">>,
      <<"/", "a", " ", "/", "b", " ", "3", "0", "2", " ", "C", "o", "u", "n", "t", "r", "y", "=">>,
      <<"/", "a", " ", "/", "b", " ", "2", "0", "0", "!", "!">>,
      <<"/", "a", " ", "/", "b", " ", "3", "!", "2", "!">>,
      <<"/", "a", " ", "a", "=", "b", "=", "c", " ", "/", "b">>,
      <<"/", "a", " ", "/", "b", " ", "3", "0", "2", " ", "C", "o", "u", "n", "t", "r", "y", "=", "a", "u", "=", "n", "z", ",", "x">>,
      <<"/", "a", " ", "/", "b", " ", "L", "a", "n", "g", "u", "a", "g", "e", "=", "h", "e", "!">>,
      <<"x", " ", "/", "a">>,
      <<"/", "a", " ", "x">>,
      <<"/", "a", " ", "/", "b", " ", "3", "0", "2", " ", "L", "a", "n", "g", "u", "a", "g", "e", "=", "h", "e", " ", "C", "o", "u", "n", "t", "r", "y", "=", "a", "u", " ", "L", "a", "n", "g", "u", "a", "g", "e", "=", "e", "n", ",", "f", "r">>,
      <<"/", "a", " ", "/", "b", " ", "L", "a", "n", "g", "u", "a", "g", "e", "=", "h", "e", " ", "C", "o", "u", "n", "t", "r", "y", "=", "a", "u", " ", "C", "o", "u", "n", "t", "r", "y", "=", "n", "z">>,
      <<"", "/", "a", "", "/", "b", " ", "3", "0", "2", "">>,
      <<"", " ">> }

RECURSIVE Unlines(_)
Unlines(lines) ==
    IF lines = <<>> THEN <<>> ELSE Head(lines) \o <<"\n">> \o Unlines(Tail(lines))

\* Multi-line inputs: at most MaxLines sample lines, each ended by a newline.
LineInputs == { Unlines(ls) : ls \in SeqsUpTo(SampleLines, MaxLines) }

----------------------------------------------------------------------------
(* The state machine: one call of Parse *)

Init ==
    /\ \/ input \in TokenInputs /\ readErr = FALSE
       \/ input \in ScenarioInputs /\ readErr = FALSE
       \/ input \in LineInputs /\ readErr \in BOOLEAN
    /\ rest = input
    /\ rules = Nil
    /\ err = Nil
    /\ pc = "scan"
    /\ call = NoCall

\* s.Scan() delivers a line that is blank or a comment: continue.
SkipLine ==
    /\ pc = "scan" /\ rest # <<>>
    /\ LET sl == ScanLines(rest)
       IN  /\ ParseLine(sl.line).kind = "skip"
           /\ rest' = sl.rest
    /\ UNCHANGED <<call, input, readErr, rules, err, pc>>

\* s.Scan() delivers a line that parses: rules = append(rules, rule).
AppendRule ==
    /\ pc = "scan" /\ rest # <<>>
    /\ LET sl == ScanLines(rest)
           r  == ParseLine(sl.line)
       IN  /\ r.kind = "rule"
           /\ rest' = sl.rest
           /\ rules' = Append(rules, r.rule)
    /\ UNCHANGED <<call, input, readErr, err, pc>>

\* s.Scan() delivers a line that does not parse: return nil, err.
ReturnError ==
    /\ pc = "scan" /\ rest # <<>>
    /\ LET sl == ScanLines(rest)
           r  == ParseLine(sl.line)
       IN  /\ r.kind = "error"
           /\ rest' = sl.rest
           /\ rules' = Nil
           /\ err' = r.err
           /\ pc' = "returned"
    /\ UNCHANGED <<call, input, readErr>>

\* s.Scan() delivers a line on which the parameter loop indexes past the last
\* token: the goroutine panics, Parse returns nothing.
Panic ==
    /\ pc = "scan" /\ rest # <<>>
    /\ LET sl == ScanLines(rest)
       IN  /\ ParseLine(sl.line).kind = "panic"
           /\ rest' = sl.rest
           /\ pc' = "panicked"
    /\ UNCHANGED <<call, input, readErr, rules, err>>

\* s.Scan() returns false: err = s.Err(); return.
ScanEnd ==
    /\ pc = "scan" /\ rest = <<>>
    /\ err' = IF readErr THEN ErrRead ELSE Nil
    /\ pc' = "returned"
    /\ UNCHANGED <<call, input, readErr, rest, rules>>

Next == SkipLine \/ AppendRule \/ ReturnError \/ Panic \/ ScanEnd

Spec == Init /\ [][Next]_vars

----------------------------------------------------------------------------
(* The state machine of a caller of the query methods on a Rule it holds *)

QueryKeys == { <<"f", "o", "o">>, <<"b", "a", "r">>, <<"b", "a", "z">> }

\* The values a Params map holds: a string or the boolean true.
QueryValues == { <<"string", <<"b", "a", "z">>>>, <<"bool", TRUE>> }

\* Every map over subsets of two of the keys (the empty map included), and
\* the nil map.
QueryParams ==
    {Nil} \cup
    { NonNil(m) : m \in UNION { [D -> QueryValues] : D \in SUBSET {<<"f", "o", "o">>, <<"b", "a", "r">>} } }

QueryStatuses == {0, 200, 204, 301, 302, 404}

InitQuery ==
    /\ input = <<>> /\ readErr = FALSE /\ rest = <<>>
    /\ err = Nil /\ pc = "returned"
    /\ \E st \in QueryStatuses, ps \in QueryParams :
           rules = << Rule(<<"/", "a">>, <<"/", "b">>, st, FALSE, ps, Nil, Nil) >>
    /\ call = NoCall

\* The receivers of Has and Get: a nil *Params, or &rules[0].Params.
Receivers == {Nil, NonNil(rules[1].Params)}

CallHas ==
    /\ \E p \in Receivers, key \in QueryKeys :
           call' = [op |-> "Has", recv |-> p, key |-> key, result |-> Has(p, key)]
    /\ UNCHANGED <<input, readErr, rest, rules, err, pc>>

CallGet ==
    /\ \E p \in Receivers, key \in QueryKeys :
           call' = [op |-> "Get", recv |-> p, key |-> key, result |-> Get(p, key)]
    /\ UNCHANGED <<input, readErr, rest, rules, err, pc>>

CallIsRewrite ==
    /\ call' = [op |-> "IsRewrite", recv |-> NonNil(rules[1]), key |-> <<>>,
                result |-> IsRewrite(rules[1])]
    /\ UNCHANGED <<input, readErr, rest, rules, err, pc>>

NextQuery == CallHas \/ CallGet \/ CallIsRewrite

SpecQuery == InitQuery /\ [][NextQuery]_vars

----------------------------------------------------------------------------
(* The linked-list variant of Parse (package src): List, isPath, parseOptions *)

\* List.Insert: a new Token at the head of the list (the list is the sequence
\* of its tokens from head to tail).
Insert(L, token, index) == <<[token |-> token, index |-> index]>> \o L

RECURSIVE Reverse(_)
\* List.Reverse
Reverse(L) == IF L = <<>> THEN <<>> ELSE Append(Reverse(Tail(L)), Head(L))

RECURSIVE InsertAll(_, _, _)
\* `for index, token := range fields { list.Insert(token, index) }`
InsertAll(L, fields, index) ==
    IF fields = <<>>
    THEN L
    ELSE InsertAll(Insert(L, Head(fields), index), Tail(fields), index + 1)

\* isInteger: strconv.Atoi
isInteger(token) == Atoi(token)

\* isStatusCode: parseStatus
isStatusCode(token) == parseStatus(token)

\* isKeyPair
isKeyPair(token) == ContainsAny(token, {"="})

ErrNumbers(token) == <<"Numbers not allowed", token>>

ErrEq(token) == <<"= not allowed", token>>

ErrBang(token) == <<"! not allowed", token>>

ErrPrefix(token) == <<"path must start with /, http://, or https://", token>>

ErrMissingFrom == <<"Missing from field">>

ErrMissingTo == <<"Missing to field">>

PrefixSlash == <<"/">>

PrefixHttp == <<"h", "t", "t", "p", ":", "/", "/">>

PrefixHttps == <<"h", "t", "t", "p", "s", ":", "/", "/">>

\* isPath: the path or an error.  The last test is
\* `(!HasPrefix(/) || !HasPrefix(http://) || !HasPrefix(https://)) == false`.
isPath(token) ==
    IF ~isInteger(token).err
    THEN [path |-> <<>>, err |-> ErrNumbers(token)]
    ELSE IF ContainsAny(token, {"="})
    THEN [path |-> <<>>, err |-> ErrEq(token)]
    ELSE IF HasSuffix(token, <<"!">>)
    THEN [path |-> <<>>, err |-> ErrBang(token)]
    ELSE IF ( \/ ~HasPrefix(token, PrefixSlash)
              \/ ~HasPrefix(token, PrefixHttp)
              \/ ~HasPrefix(token, PrefixHttps) ) = FALSE
    THEN [path |-> <<>>, err |-> ErrPrefix(token)]
    ELSE [path |-> token, err |-> Nil]

RECURSIVE parseOptionsList(_, _)
\* parseOptions over the list from a node on (acc as in parseOptions): a token
\* without `=` sets the error and breaks; an unknown key sets it and goes on.
parseOptionsList(list, acc) ==
    IF list = <<>>
    THEN acc
    ELSE LET token == Head(list).token
             kv    == splitOptions(token)
         IN  IF ~isKeyPair(token)
             THEN [acc EXCEPT !.err = ErrFormat(token)]
             ELSE parseOptionsList(Tail(list),
                      IF kv[1] = KeyCountry
                      THEN [acc EXCEPT !.Country = NonNil(kv[2])]
                      ELSE IF kv[1] = KeyLanguage
                           THEN [acc EXCEPT !.Language = NonNil(kv[2])]
                           ELSE [acc EXCEPT !.err = ErrFormat(token)])

NoOptions == [Country |-> Nil, Language |-> Nil, err |-> Nil]

RECURSIVE assignParameters(_, _)
\* `for node != nil { if !ContainsAny(node.token, "=") { break } ... }` from
\* position i of the list: the position of the node the loop stops at,
\* Len(list) + 1 for nil.
assignParameters(list, i) ==
    IF i > Len(list)
    THEN i
    ELSE IF ~ContainsAny(list[i].token, {"="})
         THEN i
         ELSE assignParameters(list, i + 1)

\* The rule is appended and Parse returns at once (`return` inside the loop).
ParsedAndReturned(r) == [kind |-> "rule-return", rule |-> r, err |-> Nil]

TokensFrom(list, i, j) == [k \in 1..(j - i + 1) |-> list[i + k - 1].token]

\* `assign status code` and `assign country and language`, with node at
\* position i of the list.
assignStatus(list, i, from, to, params) ==
    LET node == list[i].token
        a    == isInteger(node)
        st   == isStatusCode(node)
        tail == parseOptionsList(SubSeq(list, i + 1, Len(list)), NoOptions)
        here == parseOptionsList(SubSeq(list, i, Len(list)), NoOptions)
        none == parseOptionsList(<<>>, NoOptions)
    IN  IF i > Len(list)
        THEN Parsed(Rule(from, to, DefaultStatus, FALSE, params,
                         none.Country, none.Language))
        ELSE IF ~a.err
        THEN IF tail.err # Nil
             THEN Failed(tail.err)
             ELSE Parsed(Rule(from, to, a.n, FALSE, params,
                              tail.Country, tail.Language))
        ELSE IF ~st.err
        THEN IF tail.err # Nil
             THEN Failed(tail.err)
             ELSE Parsed(Rule(from, to, st.code, st.force, params,
                              tail.Country, tail.Language))
        ELSE IF here.err # Nil
             THEN Failed(here.err)
             ELSE ParsedAndReturned(Rule(from, to, DefaultStatus, st.force, params,
                                         here.Country, here.Language))

\* The loop body of the linked-list Parse on the text of one line.
ParseLineList(text) ==
    LET line   == TrimSpace(text)
        fields == Fields(line)
        list   == Reverse(InsertAll(<<>>, fields, 0))
    IN  IF emptyOrComment(line)
        THEN Skipped
        ELSE IF missingDst(fields)
        THEN Failed(ErrMissingDestination(line))
        ELSE IF list = <<>>
        THEN Failed(ErrMissingFrom)
        ELSE LET from == isPath(list[1].token)
                 i    == assignParameters(list, 2)
                 params == paramsField(TokensFrom(list, 2, i - 1))
             IN  IF from.err # Nil
                 THEN Failed(from.err)
                 ELSE IF i > Len(list)
                 THEN Failed(ErrMissingTo)
                 ELSE LET to == isPath(list[i].token)
                      IN  IF to.err # Nil
                          THEN Failed(to.err)
                          ELSE assignStatus(list, i + 1, from.path, to.path, params)

\* Lines of the multi-line inputs of the linked-list Parse: blank, a comment,
\* rules without and with a status, a rule with an option right after `to`,
\* and a single token.
ListSampleLines ==
    { <<>>,
      <<"#", " ", "c">>,
      <<"/", "a", " ", "/", "b">>,
      <<" ", "/", "b", " ", " ", "/", "a", "\t", "3", "0", "2", " ">>,
      <<"/", "a", " ", "/", "b", " ", "C", "o", "u", "n", "t", "r", "y", "=", "a", "u", ",", "n", "z">>,
      <<"/", "a">> }

ListLineInputs == { Unlines(ls) : ls \in SeqsUpTo(ListSampleLines, MaxLines) }

InitList ==
    /\ \/ input \in TokenInputs /\ readErr = FALSE
       \/ input \in ScenarioInputs /\ readErr = FALSE
       \/ input \in ListLineInputs /\ readErr \in BOOLEAN
    /\ rest = input
    /\ rules = Nil
    /\ err = Nil
    /\ pc = "scan"
    /\ call = NoCall

\* s.Scan() delivers a blank or comment line: continue.
ListSkipLine ==
    /\ pc = "scan" /\ rest # <<>>
    /\ LET sl == ScanLines(rest)
       IN  /\ ParseLineList(sl.line).kind = "skip"
           /\ rest' = sl.rest
    /\ UNCHANGED <<call, input, readErr, rules, err, pc>>

\* The line parses and the loop goes on: rules = append(rules, rule).
ListAppendRule ==
    /\ pc = "scan" /\ rest # <<>>
    /\ LET sl == ScanLines(rest)
           r  == ParseLineList(sl.line)
       IN  /\ r.kind = "rule"
           /\ rest' = sl.rest
           /\ rules' = Append(rules, r.rule)
    /\ UNCHANGED <<call, input, readErr, err, pc>>

\* The token after `to` is no status and parses as options: the rule is
\* appended and Parse returns with err = s.Err(), the rest of the input
\* unread.  The scanner has recorded the reader's error by then or not,
\* depending on how far it has read ahead.
ListAppendAndReturn ==
    /\ pc = "scan" /\ rest # <<>>
    /\ LET sl == ScanLines(rest)
           r  == ParseLineList(sl.line)
       IN  /\ r.kind = "rule-return"
           /\ rest' = sl.rest
           /\ rules' = Append(rules, r.rule)
    /\ err' \in IF readErr THEN {Nil, ErrRead} ELSE {Nil}
    /\ pc' = "returned"
    /\ UNCHANGED <<call, input, readErr>>

\* The line does not parse: return nil, err.
ListReturnError ==
    /\ pc = "scan" /\ rest # <<>>
    /\ LET sl == ScanLines(rest)
           r  == ParseLineList(sl.line)
       IN  /\ r.kind = "error"
           /\ rest' = sl.rest
           /\ rules' = Nil
           /\ err' = r.err
           /\ pc' = "returned"
    /\ UNCHANGED <<call, input, readErr>>

\* s.Scan() returns false: err = s.Err(); return.
ListScanEnd ==
    /\ pc = "scan" /\ rest = <<>>
    /\ err' = IF readErr THEN ErrRead ELSE Nil
    /\ pc' = "returned"
    /\ UNCHANGED <<call, input, readErr, rest, rules>>

NextList ==
    \/ ListSkipLine
    \/ ListAppendRule
    \/ ListAppendAndReturn
    \/ ListReturnError
    \/ ListScanEnd

SpecList == InitList /\ [][NextList]_vars

----------------------------------------------------------------------------
(* Vocabulary of the properties *)

\* The lines bufio.Scanner delivers for a text, in order.
RECURSIVE LinesOf(_)
LinesOf(text) ==
    IF text = <<>>
    THEN <<>>
    ELSE LET sl == ScanLines(text) IN <<sl.line>> \o LinesOf(sl.rest)

\* How many lines of the input have been scanned so far.
Scanned == Len(LinesOf(input)) - Len(LinesOf(rest))

\* The line the latest scanning step worked on (Scanned >= 1).
LastLine == LinesOf(input)[Scanned]

Blank(l) == \A i \in 1..Len(l) : l[i] \in Whitespace

\* The first non-whitespace character is `#`.
Comment(l) ==
    \E i \in 1..Len(l) : l[i] = "#" /\ \A j \in 1..(i - 1) : l[j] \in Whitespace

Significant(l) == ~Blank(l) /\ ~Comment(l)

\* The whitespace-delimited tokens of a line, by position: a token starts at
\* every non-space character that has no non-space character before it and
\* runs up to the next space or the end of the line.
TokenStarts(l) ==
    { i \in 1..Len(l) : l[i] \notin Whitespace /\ (i = 1 \/ l[i - 1] \in Whitespace) }

TokenEnd(l, i) ==
    CHOOSE j \in i..Len(l) :
        /\ \A k \in i..j : l[k] \notin Whitespace
        /\ (j = Len(l) \/ l[j + 1] \in Whitespace)

RECURSIVE TokensAt(_, _)
TokensAt(l, starts) ==
    IF starts = {}
    THEN <<>>
    ELSE LET i == CHOOSE x \in starts : \A y \in starts : x <= y
         IN  <<SubSeq(l, i, TokenEnd(l, i))>> \o TokensAt(l, starts \ {i})

Tokens(l) == TokensAt(l, TokenStarts(l))

HasEq(t) == \E i \in 1..Len(t) : t[i] = "="

EndsBang(t) == t # <<>> /\ t[Len(t)] = "!"

IsInt(t) == ~Atoi(t).err

\* The path rules of From and To.
ValidPath(t) == ~IsInt(t) /\ ~HasEq(t) /\ ~EndsBang(t)

\* The text before the first `=` of a token that has one.
KeyOf(t) == SubSeq(t, 1, IndexOf(t, "=", 1) - 1)

\* The text after the first `=` of a token that has one.
ValueOf(t) == SubSeq(t, IndexOf(t, "=", 1) + 1, Len(t))

IsCountry(t) == HasEq(t) /\ KeyOf(t) = KeyCountry

IsLanguage(t) == HasEq(t) /\ KeyOf(t) = KeyLanguage

\* The position of the To token among tokens f: the first token after From
\* and the run of tokens with `=` that follows it (Len(f) + 1 when none is left).
ToPos(f) ==
    IF \E i \in 2..Len(f) : ~HasEq(f[i])
    THEN CHOOSE i \in 2..Len(f) :
             ~HasEq(f[i]) /\ \A j \in 2..(i - 1) : HasEq(f[j])
    ELSE Len(f) + 1

\* A scanning step has just worked on a line with at least two tokens.
OnRuleLine == Scanned >= 1 /\ Significant(LastLine) /\ Len(Tokens(LastLine)) >= 2

\* No line scanned so far failed: Parse is still scanning, or has returned
\* with at most the reader's error.
NoLineFailed == pc # "panicked" /\ err \in {Nil, ErrRead}

\* Parse has returned nil rules and the error of a line.
LineFailed == pc = "returned" /\ rules = Nil /\ err \notin {Nil, ErrRead}

\* The latest line gave a rule, which is the last one appended.
LineGaveRule == OnRuleLine /\ NoLineFailed /\ rules # <<>>

LastRule == rules[Len(rules)]

----------------------------------------------------------------------------
(* C1 *)

SignificantLines == SelectSeq(LinesOf(input), Significant)

\* C1: when Parse returns no error, the rules are one per line that is neither
\* blank nor a comment, in the order of those lines (rule k comes from the
\* k-th such line: its From is that line's first token).
C1_OneRulePerLineInOrder ==
    (pc = "returned" /\ err = Nil) =>
        /\ Len(rules) = Len(SignificantLines)
        /\ \A k \in 1..Len(SignificantLines) :
               rules[k].From = Tokens(SignificantLines[k])[1]

\* Two rules with different sources returned from an input with a comment
\* line between their two lines.
C1_Witness ==
    /\ pc = "returned" /\ err = Nil
    /\ Len(rules) = 2 /\ rules[1].From # rules[2].From
    /\ Len(LinesOf(input)) = 3
    /\ Comment(LinesOf(input)[2])

----------------------------------------------------------------------------
(* C2 *)

\* C2: Parse always returns, never aborts; a line whose every token after From
\* contains `=` (no To token is left) makes it return an error.
C2_ParseAlwaysReturns ==
    /\ pc # "panicked"
    /\ (OnRuleLine /\ ToPos(Tokens(LastLine)) > Len(Tokens(LastLine))) => LineFailed

----------------------------------------------------------------------------
(* C3 *)

IsOption(t) == IsCountry(t) \/ IsLanguage(t)

\* The value list of the last token of f after position p that satisfies Is.
LastValues(f, p, Is(_)) ==
    LET j == CHOOSE x \in (p + 1)..Len(f) :
                 Is(f[x]) /\ \A y \in (x + 1)..Len(f) : ~Is(f[y])
    IN  Split(ValueOf(f[j]), ",")

\* C3: on a line with valid From and To whose tokens after To are all Country=
\* or Language= options (no status token), Parse succeeds with Status 301 and
\* the options' values, the first option included, are in Country and Language.
C3_OptionRightAfterTo ==
    LET f == Tokens(LastLine)
        p == ToPos(f)
    IN  ( /\ OnRuleLine
          /\ ValidPath(f[1])
          /\ p < Len(f)
          /\ ValidPath(f[p])
          /\ \A j \in (p + 1)..Len(f) : IsOption(f[j]) )
        => /\ LineGaveRule
           /\ LastRule.Status = 301
           /\ LastRule.Country =
                  IF \E j \in (p + 1)..Len(f) : IsCountry(f[j])
                  THEN NonNil(LastValues(f, p, IsCountry))
                  ELSE Nil
           /\ LastRule.Language =
                  IF \E j \in (p + 1)..Len(f) : IsLanguage(f[j])
                  THEN NonNil(LastValues(f, p, IsLanguage))
                  ELSE Nil

----------------------------------------------------------------------------
(* C4 *)

\* C4: the To of a returned rule is a token of its line that is a valid path,
\* and a line with a bare integer in the To position fails.
C4_ToIsAPathToken ==
    LET f == Tokens(LastLine)
        p == ToPos(f)
    IN  /\ LineGaveRule =>
               \E i \in 1..Len(f) : LastRule.To = f[i] /\ ValidPath(f[i])
        /\ (OnRuleLine /\ p <= Len(f) /\ IsInt(f[p])) => LineFailed

----------------------------------------------------------------------------
(* C5 *)

\* C5: a line whose first token is a bare integer, contains `=` or ends in `!`
\* fails with nil rules, and no returned rule has such a From.
C5_FromIsAPath ==
    /\ (OnRuleLine /\ ~ValidPath(Tokens(LastLine)[1])) => LineFailed
    /\ \A k \in 1..Len(rules) : ValidPath(rules[k].From)

----------------------------------------------------------------------------
(* C6 *)

\* An integer, or an integer followed by one `!`.
IsStatusToken(t) ==
    IsInt(t) \/ (EndsBang(t) /\ IsInt(SubSeq(t, 1, Len(t) - 1)))

\* C6: a line fails when a token after To, other than a status token right
\* after To, is not a Country= or Language= option.
C6_OnlyOptionsAfterTo ==
    LET f == Tokens(LastLine)
        p == ToPos(f)
    IN  ( /\ OnRuleLine
          /\ \E j \in (p + 1)..Len(f) :
                 /\ ~IsOption(f[j])
                 /\ ~(j = p + 1 /\ IsStatusToken(f[j])) )
        => LineFailed

----------------------------------------------------------------------------
(* C7 *)

\* The lines of the input that the loop body rejects with an error.
ErrorLines ==
    { k \in 1..Len(LinesOf(input)) : ParseLine(LinesOf(input)[k]).kind = "error" }

FirstError == CHOOSE k \in ErrorLines : \A j \in ErrorLines : k <= j

\* C7: when some line fails to parse, Parse ends by returning nil rules and
\* the error of the first such line, having scanned no line after it.
C7_FirstFailureIsReturned ==
    (pc # "scan" /\ ErrorLines # {}) =>
        /\ pc = "returned"
        /\ rules = Nil
        /\ err = ParseLine(LinesOf(input)[FirstError]).err
        /\ Scanned = FirstError

\* The same, for the inputs on which no line before the first rejected one
\* stops Parse by a panic.
FirstErrorIsReturned ==
    ( /\ pc # "scan"
      /\ ErrorLines # {}
      /\ \A k \in 1..(FirstError - 1) :
             ParseLine(LinesOf(input)[k]).kind # "panic" )
    => /\ pc = "returned"
       /\ rules = Nil
       /\ err = ParseLine(LinesOf(input)[FirstError]).err
       /\ err # Nil
       /\ Scanned = FirstError

----------------------------------------------------------------------------
(* C8 *)

\* C8: a line of exactly two tokens, both valid paths, gives the rule with
\* From and To as written and the defaults: 301, not forced, nil Params,
\* Country and Language.
C8_FromToDefaults ==
    LET f == Tokens(LastLine)
    IN  (OnRuleLine /\ Len(f) = 2 /\ ValidPath(f[1]) /\ ValidPath(f[2]))
        => /\ LineGaveRule
           /\ LastRule = Rule(f[1], f[2], 301, FALSE, Nil, Nil, Nil)

\* The line `/a /b` has been parsed into its rule.
C8_Witness ==
    /\ OnRuleLine
    /\ Tokens(LastLine) = << <<"/", "a">>, <<"/", "b">> >>
    /\ rules # <<>>
    /\ LastRule.From = <<"/", "a">> /\ LastRule.To = <<"/", "b">>

----------------------------------------------------------------------------
(* C9 *)

\* C9: in a rule whose line has a plain integer n right after To, Status is n
\* and Force is false; with n followed by `!` there, Status is n and Force true.
C9_StatusAndForce ==
    LET f == Tokens(LastLine)
        p == ToPos(f)
        t == f[p + 1]
        n == SubSeq(t, 1, Len(t) - 1)
    IN  (LineGaveRule /\ p < Len(f)) =>
            /\ IsInt(t) =>
                   LastRule.Status = Atoi(t).n /\ LastRule.Force = FALSE
            /\ (EndsBang(t) /\ IsInt(n)) =>
                   LastRule.Status = Atoi(n).n /\ LastRule.Force = TRUE

\* A rule with Status 200 and Force from `200!`, after one with 302, not forced.
C9_Witness ==
    /\ LineGaveRule
    /\ Len(rules) >= 2
    /\ Len(Tokens(LastLine)) = 3
    /\ Tokens(LastLine)[3] = <<"2", "0", "0", "!">>
    /\ LastRule.Status = 200 /\ LastRule.Force
    /\ rules[Len(rules) - 1].Status = 302 /\ ~rules[Len(rules) - 1].Force

----------------------------------------------------------------------------
(* C10 *)

\* The map the parameter tokens f[2..p-1] stand for: the text before the first
\* `=` to the text after it, a later token replacing an earlier one's key.
ParamsOf(f, p) ==
    [ k \in { KeyOf(f[j]) : j \in 2..(p - 1) } |->
        LET j == CHOOSE x \in 2..(p - 1) :
                     KeyOf(f[x]) = k /\ \A y \in (x + 1)..(p - 1) : KeyOf(f[y]) # k
        IN  <<"string", ValueOf(f[j])>> ]

\* A token with exactly one `=`.
OneEq(t) == Len(SelectSeq(t, LAMBDA c : c = "=")) = 1

\* The Params of a rule have the keys of the parameter tokens, nil when there
\* is none, and their values when each of those tokens has a single `=`.
ParamsAreTheRun ==
    LET f == Tokens(LastLine)
        p == ToPos(f)
    IN  LineGaveRule =>
            /\ (p = 2) = (LastRule.Params = Nil)
            /\ p > 2 => DOMAIN LastRule.Params[1] = DOMAIN ParamsOf(f, p)
            /\ (p > 2 /\ \A j \in 2..(p - 1) : OneEq(f[j])) =>
                   LastRule.Params = NonNil(ParamsOf(f, p))

\* C10: the Params of a rule are the tokens with `=` that directly follow
\* From, key to value, and To is the first token after that run.
C10_ParamsThenTo ==
    LET f == Tokens(LastLine)
        p == ToPos(f)
    IN  LineGaveRule =>
            /\ p <= Len(f)
            /\ LastRule.To = f[p]
            /\ LastRule.Params = IF p = 2 THEN Nil ELSE NonNil(ParamsOf(f, p))

\* Tokenising by position and strings.Fields agree on every scanned line.
TokensAreFields == Scanned >= 1 => Tokens(LastLine) = Fields(LastLine)

----------------------------------------------------------------------------
(* C11 *)

\* The status a status token stands for.
StatusOf(t) == IF IsInt(t) THEN Atoi(t).n ELSE Atoi(SubSeq(t, 1, Len(t) - 1)).n

CountOf(f, p, Is(_)) == Cardinality({ j \in (p + 1)..Len(f) : Is(f[j]) })

\* C11: a line `from [params] to status[!]` followed by at most one Country=
\* and at most one Language= token, in either order, gives a rule whose
\* Country and Language are the comma-separated values in order (nil for an
\* absent option), with the line's Params, Status and Force.
C11_OptionsAfterStatus ==
    LET f == Tokens(LastLine)
        p == ToPos(f)
    IN  ( /\ OnRuleLine
          /\ ValidPath(f[1])
          /\ \A j \in 2..(p - 1) : OneEq(f[j])
          /\ p < Len(f)
          /\ ValidPath(f[p])
          /\ IsStatusToken(f[p + 1])
          /\ \A j \in (p + 2)..Len(f) : IsOption(f[j]) /\ OneEq(f[j])
          /\ CountOf(f, p, IsCountry) <= 1
          /\ CountOf(f, p, IsLanguage) <= 1 )
        => /\ LineGaveRule
           /\ LastRule.From = f[1]
           /\ LastRule.To = f[p]
           /\ LastRule.Status = StatusOf(f[p + 1])
           /\ LastRule.Force = EndsBang(f[p + 1])
           /\ LastRule.Params = IF p = 2 THEN Nil ELSE NonNil(ParamsOf(f, p))
           /\ LastRule.Country =
                  IF CountOf(f, p, IsCountry) = 1
                  THEN NonNil(LastValues(f, p, IsCountry))
                  ELSE Nil
           /\ LastRule.Language =
                  IF CountOf(f, p, IsLanguage) = 1
                  THEN NonNil(LastValues(f, p, IsLanguage))
                  ELSE Nil

\* `/a k=v /b 200! Country=au,nz Language=he` has been parsed into its rule.
C11_Witness ==
    /\ LineGaveRule
    /\ Len(Tokens(LastLine)) = 6
    /\ LastRule.Country = NonNil(<< <<"a", "u">>, <<"n", "z">> >>)
    /\ LastRule.Language = NonNil(<< <<"h", "e">> >>)
    /\ LastRule.Status = 200 /\ LastRule.Force
    /\ LastRule.Params # Nil

----------------------------------------------------------------------------
(* C12 *)

\* C12: a non-blank, non-comment line with exactly one token makes Parse
\* return nil rules and a (missing destination) error, whatever came before.
C12_SingleTokenFails ==
    (Scanned >= 1 /\ Significant(LastLine) /\ Len(Tokens(LastLine)) = 1)
    => /\ LineFailed
       /\ err[1] = "missing destination path"

\* A single-token line has failed after a line that parsed.
C12_Witness ==
    /\ Scanned = 2
    /\ Len(Tokens(LastLine)) = 1
    /\ Significant(LinesOf(input)[1])
    /\ ParseLine(LinesOf(input)[1]).kind = "rule"
    /\ pc = "returned" /\ rules = Nil /\ err # Nil

----------------------------------------------------------------------------
(* C13 *)

EmptyNonNil == NonNil(<<>>)

\* C13: in a returned rule Params is nil when the line has no parameter token,
\* Country is nil when it has no Country= token, Language is nil when it has
\* no Language= token, and none of the three is an empty non-nil container.
C13_AbsentIsNil ==
    LET f == Tokens(LastLine)
        p == ToPos(f)
    IN  /\ LineGaveRule =>
               /\ (p = 2) => LastRule.Params = Nil
               /\ (\A j \in 1..Len(f) : ~IsCountry(f[j])) => LastRule.Country = Nil
               /\ (\A j \in 1..Len(f) : ~IsLanguage(f[j])) => LastRule.Language = Nil
        /\ \A k \in 1..Len(rules) :
               /\ rules[k].Params # EmptyNonNil
               /\ rules[k].Country # EmptyNonNil
               /\ rules[k].Language # EmptyNonNil

\* A rule with a Country only: Params and Language are nil.
C13_Witness ==
    /\ LineGaveRule
    /\ LastRule.Country # Nil
    /\ LastRule.Params = Nil /\ LastRule.Language = Nil
    /\ ToPos(Tokens(LastLine)) = 2

----------------------------------------------------------------------------
(* C14 *)

\* The key is present in the map the receiver points to.
Present(p, key) == p # Nil /\ p[1] # Nil /\ key \in DOMAIN p[1][1]

\* C14: Has is true exactly when the key is in the map, Get returns the stored
\* value when it is and nil otherwise; on a nil receiver or nil map Has is
\* false and Get nil; and the map is after the call what it was before it.
C14_HasAndGet ==
    /\ call.op = "Has" => call.result = Present(call.recv, call.key)
    /\ call.op = "Get" =>
           call.result = IF Present(call.recv, call.key)
                         THEN call.recv[1][1][call.key]
                         ELSE Nil
    /\ (call.op \in {"Has", "Get"} /\ call.recv # Nil) =>
           call.recv = NonNil(rules[1].Params)

\* Has has found a key of a map that also lacks another key.
C14_Witness ==
    /\ call.op = "Has" /\ call.result = TRUE
    /\ call.key = <<"f", "o", "o">>
    /\ rules[1].Params # Nil
    /\ <<"b", "a", "r">> \notin DOMAIN rules[1].Params[1]

----------------------------------------------------------------------------
(* C15 *)

\* C15: IsRewrite is true if and only if Status is 200 (false for 0, 301, 302
\* and every other status), and the rule is after the call what it was.
C15_IsRewriteIff200 ==
    call.op = "IsRewrite" =>
        /\ call.result = TRUE => rules[1].Status = 200
        /\ rules[1].Status = 200 => call.result = TRUE
        /\ rules[1].Status \in {0, 301, 302} => call.result = FALSE
        /\ call.recv = NonNil(rules[1])

\* IsRewrite has answered false for a rule with a status other than 200.
C15_Witness ==
    /\ call.op = "IsRewrite" /\ call.result = FALSE /\ rules[1].Status = 302

----------------------------------------------------------------------------
(* C16 *)

\* C16: when the linked-list Parse returns no error on an input that is read
\* without error, it returns as many rules
\* as the input has lines that are neither blank nor comments, the lines after
\* one with an option right after To (no status token) included, and the last
\* rule comes from the last such line.
C16_ListParsesEveryLine ==
    (pc = "returned" /\ err = Nil /\ ~readErr) =>
        /\ Len(rules) = Len(SignificantLines)
        /\ rules # <<>> =>
               LastRule.From = Tokens(SignificantLines[Len(SignificantLines)])[1]

----------------------------------------------------------------------------
(* C17 *)

\* C17: a rule whose line has a token with `=` right after To (no status
\* token) has Force false, whatever that token ends in.
C17_NoStatusNoForce ==
    LET f == Tokens(LastLine)
        p == ToPos(f)
    IN  (LineGaveRule /\ p < Len(f) /\ HasEq(f[p + 1])) => LastRule.Force = FALSE

----------------------------------------------------------------------------
(* C18 *)

\* C18: a line with valid From and To whose token right after To has no `=`
\* and is not an integer with at most one trailing `!` makes Parse fail with
\* the format error of that token.
C18_StatusTokenShape ==
    LET f == Tokens(LastLine)
        p == ToPos(f)
    IN  ( /\ OnRuleLine
          /\ ValidPath(f[1])
          /\ p < Len(f)
          /\ ValidPath(f[p])
          /\ ~HasEq(f[p + 1])
          /\ ~IsStatusToken(f[p + 1]) )
        => LineFailed /\ err = ErrFormat(f[p + 1])

----------------------------------------------------------------------------
(* C19 *)

\* The last token of f from position q on that satisfies Is, if any.
IsLast(f, q, j, Is(_)) ==
    j \in q..Len(f) /\ Is(f[j]) /\ \A y \in (j + 1)..Len(f) : ~Is(f[y])

\* C19: in a rule, every parameter token stands for its text before the first
\* `=` mapped to all of its text after it, and Country and Language are the
\* text after the first `=` of their last option token (after the status
\* position) split on `,`.
C19_SplitOnFirstEq ==
    LET f == Tokens(LastLine)
        p == ToPos(f)
    IN  (LineGaveRule /\ p <= Len(f)) =>
            /\ p > 2 => LastRule.Params = NonNil(ParamsOf(f, p))
            /\ \A j \in (p + 2)..Len(f) :
                   /\ IsLast(f, p + 2, j, IsCountry) =>
                          LastRule.Country = NonNil(Split(ValueOf(f[j]), ","))
                   /\ IsLast(f, p + 2, j, IsLanguage) =>
                          LastRule.Language = NonNil(Split(ValueOf(f[j]), ","))

\* The same for the lines whose parameter and option tokens have one `=` each.
SplitOnTheOnlyEq ==
    LET f == Tokens(LastLine)
        p == ToPos(f)
    IN  ( /\ LineGaveRule /\ p <= Len(f)
          /\ \A j \in (2..(p - 1)) \cup ((p + 2)..Len(f)) : OneEq(f[j]) ) =>
            /\ p > 2 => LastRule.Params = NonNil(ParamsOf(f, p))
            /\ \A j \in (p + 2)..Len(f) :
                   /\ IsLast(f, p + 2, j, IsCountry) =>
                          LastRule.Country = NonNil(Split(ValueOf(f[j]), ","))
                   /\ IsLast(f, p + 2, j, IsLanguage) =>
                          LastRule.Language = NonNil(Split(ValueOf(f[j]), ","))

----------------------------------------------------------------------------
(* C20 *)

\* The token starts with `/`, `http://` or `https://`.
PathPrefix(t) ==
    HasPrefix(t, PrefixSlash) \/ HasPrefix(t, PrefixHttp) \/ HasPrefix(t, PrefixHttps)

\* C20: the linked-list Parse fails on a line whose From token or To token
\* starts with none of `/`, `http://` and `https://`.
C20_PathPrefixRequired ==
    LET f == Tokens(LastLine)
        p == ToPos(f)
    IN  ( /\ OnRuleLine
          /\ \/ ~PathPrefix(f[1])
             \/ p <= Len(f) /\ ~PathPrefix(f[p]) )
        => LineFailed

----------------------------------------------------------------------------
(* C21 *)

\* C21: whenever Parse has returned a non-nil error, the rules it returns are
\* nil, also when the error is the reader's and lines were parsed before it.
C21_ErrorMeansNilRules ==
    (pc = "returned" /\ err # Nil) => rules = Nil

\* The same for the errors of lines only.
LineErrorMeansNilRules ==
    (pc = "returned" /\ err \notin {Nil, ErrRead}) => rules = Nil

----------------------------------------------------------------------------
(* C22 *)

\* C22: on a line `from [params] to [status[!]]` followed by Country= and
\* Language= tokens (one `=` each) of which one key at least is repeated, the
\* rule's Country is the value list of the last Country= token alone and its
\* Language that of the last Language= token alone (nil for an absent key).
C22_LastOptionWins ==
    LET f == Tokens(LastLine)
        p == ToPos(f)
    IN  ( /\ OnRuleLine
          /\ ValidPath(f[1])
          /\ p < Len(f)
          /\ ValidPath(f[p])
          /\ \A j \in (p + 1)..Len(f) :
                 \/ IsOption(f[j]) /\ OneEq(f[j])
                 \/ j = p + 1 /\ IsStatusToken(f[j])
          /\ \/ CountOf(f, p, IsCountry) >= 2
             \/ CountOf(f, p, IsLanguage) >= 2 )
        => /\ LineGaveRule
           /\ LastRule.Country =
                  IF CountOf(f, p, IsCountry) >= 1
                  THEN NonNil(LastValues(f, p, IsCountry))
                  ELSE Nil
           /\ LastRule.Language =
                  IF CountOf(f, p, IsLanguage) >= 1
                  THEN NonNil(LastValues(f, p, IsLanguage))
                  ELSE Nil

\* The same for the lines that have a status token right after To.
LastOptionWinsAfterStatus ==
    LET f == Tokens(LastLine)
        p == ToPos(f)
    IN  ( /\ OnRuleLine
          /\ ValidPath(f[1])
          /\ p < Len(f)
          /\ ValidPath(f[p])
          /\ IsStatusToken(f[p + 1])
          /\ \A j \in (p + 2)..Len(f) : IsOption(f[j]) /\ OneEq(f[j])
          /\ \/ CountOf(f, p, IsCountry) >= 2
             \/ CountOf(f, p, IsLanguage) >= 2 )
        => /\ LineGaveRule
           /\ LastRule.Country =
                  IF CountOf(f, p, IsCountry) >= 1
                  THEN NonNil(LastValues(f, p, IsCountry))
                  ELSE Nil
           /\ LastRule.Language =
                  IF CountOf(f, p, IsLanguage) >= 1
                  THEN NonNil(LastValues(f, p, IsLanguage))
                  ELSE Nil

\* `/a /b 302 Country=au,nz Language=he Country=nz` has been parsed: Country is
\* the last list, without the values of the first, and Language is kept.
LastOptionWinsReached ==
    /\ LineGaveRule
    /\ Len(Tokens(LastLine)) = 6
    /\ Tokens(LastLine)[4] = KeyCountry \o <<"=", "a", "u", ",", "n", "z">>
    /\ Tokens(LastLine)[6] = KeyCountry \o <<"=", "n", "z">>
    /\ LastRule.Country = NonNil(<< <<"n", "z">> >>)
    /\ LastRule.Language = NonNil(<< <<"h", "e">> >>)

====
